---- MODULE Spec2Model ----
(***************************************************************************)
(* Kobo2Notion: the bookmark synchroniser (src/kobo2notion.py).            *)
(*                                                                         *)
(* Text is a sequence of one-character strings, so that strip, split and   *)
(* startswith are computed as Python computes them.  The Notion workspace  *)
(* is the variable objs; one sync run is a process whose position is       *)
(* run[r].pc.                                                              *)
(***************************************************************************)
EXTENDS Integers, Sequences, FiniteSets, TLC

\* ------------------------------------------------------------------------
\* Bounds of the model
\* ------------------------------------------------------------------------
MaxRuns == 3
MaxFaults == 1
MaxBatchFaults == 3
MaxBlocks == 250
MaxChars == 4
MaxLines == 3
MaxIndent == 2
MaxRecs == 2

VARIABLES
  books,   \* the rows get_books_data() returns (the content table)
  marks,   \* the Bookmark table: title -> rows in creation order
  gemini,  \* the markup text the Summarizer answers with
  google,  \* what the cover lookup finds: a url, or None
  faults,  \* how many calls the environment may still make fail
  objs,    \* the Notion workspace: object id -> object, in creation order
  run      \* the sync runs: run -> the locals of sync_bookmarks

vars == <<books, marks, gemini, google, faults, objs, run>>
env == <<books, marks, gemini, google>>

\* ------------------------------------------------------------------------
\* Python values and string primitives
\* ------------------------------------------------------------------------

\* Python's None for an optional text (never a text over the alphabets used)
None == <<"<None>">>

\* str.isspace for one character
IsSpace(c) == c \in {" ", "\t", "\n", "\r"}

\* str.isdigit for one character
IsDigit(c) == c \in {"0", "1", "2", "3", "4", "5", "6", "7", "8", "9"}

RECURSIVE lstrip(_)
\* str.lstrip(): drop leading whitespace
lstrip(s) ==
  IF s # <<>> /\ IsSpace(Head(s)) THEN lstrip(Tail(s)) ELSE s

RECURSIVE rstrip(_)
\* str.rstrip(): drop trailing whitespace
rstrip(s) ==
  IF s # <<>> /\ IsSpace(s[Len(s)]) THEN rstrip(SubSeq(s, 1, Len(s) - 1)) ELSE s

\* str.strip()
strip(s) == rstrip(lstrip(s))

RECURSIVE lstrip_hash(_)
\* str.lstrip("#"): drop leading '#' characters
lstrip_hash(s) ==
  IF s # <<>> /\ Head(s) = "#" THEN lstrip_hash(Tail(s)) ELSE s

\* str.replace("\n", " ")
replace_newline(s) == [k \in 1..Len(s) |-> IF s[k] = "\n" THEN " " ELSE s[k]]

\* str.startswith(p)
startswith(s, p) == Len(s) >= Len(p) /\ SubSeq(s, 1, Len(p)) = p

\* str.find(p) + 1: the 1-based index of the first occurrence of p, 0 if none
find(s, p) ==
  LET hits == {k \in 1..(Len(s) - Len(p) + 1) : SubSeq(s, k, k + Len(p) - 1) = p}
  IN IF hits = {} THEN 0 ELSE CHOOSE k \in hits : \A j \in hits : k <= j

RECURSIVE split(_, _)
\* str.split(sep) for a non-empty separator: always at least one piece
split(s, sep) ==
  LET k == find(s, sep)
  IN IF k = 0 THEN <<s>>
     ELSE <<SubSeq(s, 1, k - 1)>> \o split(SubSeq(s, k + Len(sep), Len(s)), sep)

\* len(line.split()[0]) for a stripped, non-empty line: the length of the
\* first whitespace-delimited token
first_token_len(line) ==
  LET ws == {k \in 1..Len(line) : IsSpace(line[k])}
  IN IF ws = {} THEN Len(line)
     ELSE (CHOOSE k \in ws : \A j \in ws : k <= j) - 1

\* min(a, b)
min(a, b) == IF a <= b THEN a ELSE b

\* ------------------------------------------------------------------------
\* parse_markdown_to_notion_blocks
\* ------------------------------------------------------------------------

\* parse_rich_text with the test on the index inverted: even indices bold
parse_rich_text_even_bold(content) ==
  LET parts == split(content, <<"*", "*">>)
      RECURSIVE spans(_)
      spans(k) ==
        IF k > Len(parts) THEN <<>>
        ELSE (IF parts[k] # <<>>
              THEN <<[content |-> parts[k], bold |-> ((k - 1) % 2 = 0)]>>
              ELSE <<>>) \o spans(k + 1)
  IN spans(1)

\* parse_rich_text: split on "**", drop empty parts, odd indices are bold
parse_rich_text(content) ==
  LET parts == split(content, <<"*", "*">>)
      keep  == {k \in 1..Len(parts) : parts[k] # <<>>}
      RECURSIVE spans(_)
      spans(k) ==
        IF k > Len(parts) THEN <<>>
        ELSE (IF k \in keep
              THEN <<[content |-> parts[k], bold |-> ((k - 1) % 2 = 1)]>>
              ELSE <<>>) \o spans(k + 1)
  IN spans(1)

\* create_block(block_type, content): children is None at every call site,
\* so the block carries no "children" key
create_block(block_type, content) ==
  [object |-> "block", type |-> block_type,
   rich_text |-> parse_rich_text(content),
   has_children |-> FALSE, children |-> <<>>]

\* f"heading_{level}"
heading_type(level) ==
  CASE level = 1 -> "heading_1"
    [] level = 2 -> "heading_2"
    [] OTHER     -> "heading_3"

\* the level of a heading line: min(len(line.split()[0]), 3)
heading_level(line) == min(first_token_len(line), 3)

\* indent = len(line) - len(line.lstrip()), computed on the line the loop
\* holds at that point (already stripped by the loop's first statement)
line_indent(line) == Len(line) - Len(lstrip(line))

\* the loop state before the first line
ParseInit ==
  [notion_blocks |-> <<>>, current_list |-> 0, list_stack |-> <<>>,
   raised |-> FALSE, indents |-> <<>>]

\* the list-item branches attaching to whatever item is open, of either
\* kind and at any indent
list_item_attach_any(st, kind, content, indent) ==
  LET new_item == [object |-> "block", type |-> kind,
                   rich_text |-> <<[content |-> content, bold |-> FALSE]>>,
                   has_children |-> FALSE, children |-> <<>>]
  IN IF st.current_list # 0
     THEN [st EXCEPT !.notion_blocks[st.current_list].children =
                        Append(@, new_item),
                     !.notion_blocks[st.current_list].has_children = TRUE]
     ELSE [st EXCEPT !.notion_blocks = Append(@, new_item),
                     !.current_list = Len(st.notion_blocks) + 1,
                     !.list_stack = <<indent>>]

\* the list-item branches: attach to the open item or open a new list.
\* current_list is the index in notion_blocks of the open item (0 is None).
list_item(st, kind, content, indent) ==
  LET new_item == create_block(kind, content)
  IN IF st.current_list # 0 /\ indent > st.list_stack[Len(st.list_stack)]
     THEN LET cur == st.notion_blocks[st.current_list]
          IN IF cur.type = kind /\ cur.has_children
             THEN [st EXCEPT !.notion_blocks[st.current_list].children =
                                Append(@, new_item)]
             ELSE [st EXCEPT !.raised = TRUE]   \* KeyError
     ELSE [st EXCEPT !.notion_blocks = Append(@, new_item),
                     !.current_list = Len(st.notion_blocks) + 1,
                     !.list_stack = <<indent>>]

\* one iteration of the loop with the bullet test on the marker alone, not
\* on the marker and a space
parse_line_bullet_no_space(st, raw) ==
  LET line0  == strip(raw)
      indent == line_indent(line0)
      line   == strip(line0)
      st1    == [st EXCEPT !.indents = Append(@, indent)]
  IN IF st.raised \/ line0 = <<>> THEN st
     ELSE IF startswith(line, <<"#">>)
       THEN [st1 EXCEPT !.notion_blocks =
                 Append(@, create_block(heading_type(heading_level(line)),
                                        strip(lstrip_hash(line)))),
               !.current_list = 0]
     ELSE IF startswith(line, <<"-">>) \/ startswith(line, <<"*">>)
       THEN list_item(st1, "bulleted_list_item",
                      strip(SubSeq(line, 3, Len(line))), indent)
     ELSE IF IsDigit(line[1]) /\ find(line, <<".", " ">>) # 0
       THEN list_item(st1, "numbered_list_item",
                      strip(SubSeq(line, find(line, <<".", " ">>) + 2, Len(line))),
                      indent)
     ELSE IF startswith(line, <<">">>)
       THEN [st1 EXCEPT !.notion_blocks =
                 Append(@, create_block("quote", strip(Tail(line)))),
               !.current_list = 0]
     ELSE [st1 EXCEPT !.notion_blocks =
                 Append(@, create_block("paragraph", line)),
               !.current_list = 0]

\* one iteration of the loop over lines
parse_line(st, raw) ==
  LET line0  == strip(raw)
      indent == line_indent(line0)
      line   == strip(line0)
      st1    == [st EXCEPT !.indents = Append(@, indent)]
  IN IF st.raised \/ line0 = <<>> THEN st
     ELSE IF startswith(line, <<"#">>)
       THEN [st1 EXCEPT !.notion_blocks =
                 Append(@, create_block(heading_type(heading_level(line)),
                                        strip(lstrip_hash(line)))),
               !.current_list = 0]
     ELSE IF startswith(line, <<"-", " ">>) \/ startswith(line, <<"*", " ">>)
       THEN list_item(st1, "bulleted_list_item",
                      strip(SubSeq(line, 3, Len(line))), indent)
     ELSE IF IsDigit(line[1]) /\ find(line, <<".", " ">>) # 0
       THEN list_item(st1, "numbered_list_item",
                      strip(SubSeq(line, find(line, <<".", " ">>) + 2, Len(line))),
                      indent)
     ELSE IF startswith(line, <<">">>)
       THEN [st1 EXCEPT !.notion_blocks =
                 Append(@, create_block("quote", strip(Tail(line)))),
               !.current_list = 0]
     ELSE [st1 EXCEPT !.notion_blocks =
                 Append(@, create_block("paragraph", line)),
               !.current_list = 0]

RECURSIVE parse_lines(_, _)
\* the loop over lines
parse_lines(st, lines) ==
  IF lines = <<>> THEN st
  ELSE parse_lines(parse_line(st, Head(lines)), Tail(lines))

\* parse_markdown_to_notion_blocks(markdown_text): the final loop state;
\* .notion_blocks is the returned list unless .raised
parse_markdown_to_notion_blocks(markdown_text) ==
  parse_lines(ParseInit, split(markdown_text, <<"\n">>))

\* ------------------------------------------------------------------------
\* _prepare_bookmark_blocks
\* ------------------------------------------------------------------------

\* Python truthiness of an optional text
Truthy(x) == x # None /\ x # <<>>

\* the content of one bookmark row
bookmark_content(bookmark) ==
  LET content == IF bookmark.Highlight # None
                 THEN replace_newline(strip(bookmark.Highlight))
                 ELSE <<>>
  IN IF bookmark.Type # "highlight" /\ Truthy(bookmark.Annotation)
     THEN LET annotation == strip(bookmark.Annotation)
          IN IF content # <<>> THEN annotation \o <<"\n">> \o content
             ELSE annotation
     ELSE content

\* block_type taken from the presence of a note instead of the Type column
bookmark_block_type_by_note(bookmark) ==
  IF bookmark.Annotation # <<"<None>">> /\ bookmark.Annotation # <<>>
  THEN "quote" ELSE "paragraph"

\* block_type of one bookmark row
bookmark_block_type(bookmark) ==
  IF bookmark.Type = "highlight" THEN "paragraph" ELSE "quote"

\* the block appended for a row with content
bookmark_block(block_type, content) ==
  [object |-> "block", type |-> block_type,
   rich_text |-> <<[content |-> content, bold |-> FALSE]>>,
   has_children |-> FALSE, children |-> <<>>]

\* _prepare_bookmark_blocks(bookmarks): the loop appends one block for
\* each row whose content is not empty, in the order of the rows
_prepare_bookmark_blocks(bookmarks) ==
  LET HasContent(bookmark) == bookmark_content(bookmark) # <<>>
      kept == SelectSeq(bookmarks, HasContent)
  IN [k \in 1..Len(kept) |->
        bookmark_block(bookmark_block_type(kept[k]), bookmark_content(kept[k]))]

\* ------------------------------------------------------------------------
\* The Notion workspace (notion_client), as the code uses it
\* ------------------------------------------------------------------------

\* the limit of blocks per append request
BatchCap == 100

\* the database itself, as the parent of the main pages
Database == 0

\* properties of an object that is not a main page
NoProps == [Title |-> "", Info |-> 0]

\* body of an object that is a page
NoBody ==
  [object |-> "page", type |-> "", rich_text |-> <<>>,
   has_children |-> FALSE, children |-> <<>>]

\* the object ids, ascending (creation order)
Ids(os) == [k \in 1..Len(os) |-> k]

\* databases.query(filter Title equals title): the live pages of the
\* database whose title is exactly title
QueryByTitle(os, title) ==
  LET Hit(k) == os[k].kind = "page" /\ os[k].parent = Database
                /\ ~os[k].archived /\ os[k].props.Title = title
  IN SelectSeq(Ids(os), Hit)

\* blocks.children.list(block_id): the live children, in order
ListChildren(os, block_id) ==
  LET Hit(k) == os[k].parent = block_id /\ ~os[k].archived
  IN SelectSeq(Ids(os), Hit)

\* pages.create(parent database, cover, icon, properties)
NewMainPage(cover_url, properties, r) ==
  [parent |-> Database, kind |-> "page", archived |-> FALSE,
   props |-> properties, cover |-> cover_url, body |-> NoBody, by |-> r]

\* pages.create(parent page_id, title "Highlights")
NewHighlightPage(parent_page_id, r) ==
  [parent |-> parent_page_id, kind |-> "child_page", archived |-> FALSE,
   props |-> [Title |-> "Highlights", Info |-> 0], cover |-> None,
   body |-> NoBody, by |-> r]

\* blocks.children.append(block_id, children): the objects it adds
NewBlocks(block_id, children, r) ==
  [k \in 1..Len(children) |->
     [parent |-> block_id, kind |-> "block", archived |-> FALSE,
      props |-> NoProps, cover |-> None, body |-> children[k], by |-> r]]

\* the properties get_or_create_page builds from a book row
Properties(book) == [Title |-> book.Title, Info |-> book.Info]

\* ------------------------------------------------------------------------
\* sync_bookmarks: one run, one store or collaborator call per step
\* ------------------------------------------------------------------------

Runs == 1..MaxRuns

\* the locals of a run that has not started
IdleRun ==
  [pc |-> "idle", idx |-> 0, SUMMARIZE |-> FALSE, cover_url |-> None,
   existing_page |-> <<>>,
   page_ids |-> [parent_page |-> 0, highlight_page |-> 0],
   original_highlights |-> <<>>, bookmarks |-> <<>>, blocks |-> <<>>,
   i |-> 0, appends |-> <<>>, synced |-> <<>>, ops |-> <<>>, failed |-> ""]

\* the run is over: it returned, or an exception left sync_bookmarks
Finished(me) == me.pc \in {"done", "crashed"}

\* the book row the loop of sync_bookmarks holds
Book(me) == books[me.idx]

\* the run's trace of calls: the call, the row it is made for, whether it
\* returned (ok) or raised
Op(me, name, ok) == Append(me.ops, [op |-> name, rec |-> me.idx, ok |-> ok])

\* the calls of get_or_create_page and summarize_bookmarks: none is inside
\* a try
RaisingPcs ==
  {"fetch_cover", "query", "create_main", "update", "list_children",
   "archive", "create_highlight", "summarize"}

\* the two calls of sync_blocks in sync_bookmarks
SyncPcs == {"sync_highlights", "sync_summary"}

\* runs are started one after the other
Sequential(r) == \A q \in Runs : q < r => Finished(run[q])

\* sync_bookmarks starts: get_books_data() and the first row
Begin(r, summarize) ==
  /\ run[r].pc = "idle"
  /\ run' = [run EXCEPT ![r] =
        [@ EXCEPT !.pc = IF books = <<>> THEN "done" ELSE "fetch_cover",
                  !.idx = 1, !.SUMMARIZE = summarize]]
  /\ UNCHANGED <<env, faults, objs>>

StartRun(r) ==
  /\ Sequential(r)
  /\ \E summarize \in BOOLEAN : Begin(r, summarize)

\* fetch_book_cover returns a url or None
FetchCover(r) ==
  /\ run[r].pc = "fetch_cover"
  /\ run' = [run EXCEPT ![r] =
        [@ EXCEPT !.pc = "query", !.cover_url = google,
                  !.ops = Op(run[r], "fetch_cover", TRUE)]]
  /\ UNCHANGED <<env, faults, objs>>

\* a call outside any try raises: the exception leaves sync_bookmarks
Raises(r) ==
  /\ run[r].pc \in RaisingPcs
  /\ faults > 0
  /\ faults' = faults - 1
  /\ run' = [run EXCEPT ![r] =
        [@ EXCEPT !.pc = "crashed", !.failed = run[r].pc,
                  !.ops = Op(run[r], run[r].pc, FALSE)]]
  /\ UNCHANGED <<env, objs>>

\* get_or_create_page without the branch: a page is created every time
after_query_always_create(existing_page) == "create_main"

\* get_or_create_page returning page ids without creating or updating
after_query_skip_page(existing_page) == "load_bookmark"

\* the branch of get_or_create_page on the query's result
after_query(existing_page) ==
  IF existing_page # <<>> THEN "update" ELSE "create_main"

\* databases.query by exact title
QueryPage(r) ==
  /\ run[r].pc = "query"
  /\ LET existing_page == QueryByTitle(objs, Book(run[r]).Title)
     IN run' = [run EXCEPT ![r] =
          [@ EXCEPT !.pc = after_query(existing_page),
                    !.existing_page = existing_page,
                    !.ops = Op(run[r], "query", TRUE)]]
  /\ UNCHANGED <<env, faults, objs>>

\* _create_main_page as a conditional create: refused when a live page of
\* the title exists at the time of the call
CreateMainPage_if_absent(r) ==
  /\ run[r].pc = "create_main"
  /\ QueryByTitle(objs, Book(run[r]).Title) = <<>>
  /\ objs' = Append(objs,
        NewMainPage(run[r].cover_url, Properties(Book(run[r])), r))
  /\ run' = [run EXCEPT ![r] =
        [@ EXCEPT !.pc = "create_highlight",
                  !.page_ids.parent_page = Len(objs) + 1,
                  !.ops = Op(run[r], "create_main", TRUE)]]
  /\ UNCHANGED <<env, faults>>

\* _create_main_page
CreateMainPage(r) ==
  /\ run[r].pc = "create_main"
  /\ objs' = Append(objs,
        NewMainPage(run[r].cover_url, Properties(Book(run[r])), r))
  /\ run' = [run EXCEPT ![r] =
        [@ EXCEPT !.pc = "create_highlight",
                  !.page_ids.parent_page = Len(objs) + 1,
                  !.ops = Op(run[r], "create_main", TRUE)]]
  /\ UNCHANGED <<env, faults>>

\* _update_existing_page: pages.update(cover, icon, properties)
UpdatePage(r) ==
  /\ run[r].pc = "update"
  /\ LET page_id == run[r].existing_page[1]
     IN /\ objs' = [objs EXCEPT ![page_id].cover = run[r].cover_url,
                                ![page_id].props = Properties(Book(run[r]))]
        /\ run' = [run EXCEPT ![r] =
             [@ EXCEPT !.pc = "list_children",
                       !.page_ids.parent_page = page_id,
                       !.ops = Op(run[r], "update", TRUE)]]
  /\ UNCHANGED <<env, faults>>

\* _archive_old_highlights: blocks.children.list(page_id)
ListOldHighlights(r) ==
  /\ run[r].pc = "list_children"
  /\ LET results == ListChildren(objs, run[r].page_ids.parent_page)
     IN run' = [run EXCEPT ![r] =
          [@ EXCEPT !.pc = IF results # <<>> THEN "archive"
                           ELSE "create_highlight",
                    !.original_highlights = results,
                    !.ops = Op(run[r], "list_children", TRUE)]]
  /\ UNCHANGED <<env, faults, objs>>

\* the object _archive_old_highlights archives: results[0]
archive_target(original_highlights) == original_highlights[1]

\* _archive_old_highlights: pages.update(results[0].id, archived=True)
ArchiveOldHighlights(r) ==
  /\ run[r].pc = "archive"
  /\ objs' = [objs EXCEPT
        ![archive_target(run[r].original_highlights)].archived = TRUE]
  /\ run' = [run EXCEPT ![r] =
        [@ EXCEPT !.pc = "create_highlight",
                  !.ops = Op(run[r], "archive", TRUE)]]
  /\ UNCHANGED <<env, faults>>

\* _create_highlight_page
CreateHighlightPage(r) ==
  /\ run[r].pc = "create_highlight"
  /\ objs' = Append(objs, NewHighlightPage(run[r].page_ids.parent_page, r))
  /\ run' = [run EXCEPT ![r] =
        [@ EXCEPT !.pc = "load_bookmark",
                  !.page_ids.highlight_page = Len(objs) + 1,
                  !.ops = Op(run[r], "create_highlight", TRUE)]]
  /\ UNCHANGED <<env, faults>>

\* load_bookmark(book title)
LoadBookmark(r) ==
  /\ run[r].pc = "load_bookmark"
  /\ run' = [run EXCEPT ![r] =
        [@ EXCEPT !.pc = "prepare",
                  !.bookmarks = marks[Book(run[r]).Title]]]
  /\ UNCHANGED <<env, faults, objs>>

\* bookmark_blocks = _prepare_bookmark_blocks(bookmarks); sync_blocks is
\* entered with the highlight page
PrepareBlocks(r) ==
  /\ run[r].pc = "prepare"
  /\ run' = [run EXCEPT ![r] =
        [@ EXCEPT !.pc = "sync_highlights",
                  !.blocks = _prepare_bookmark_blocks(run[r].bookmarks),
                  !.i = 0, !.appends = <<>>]]
  /\ UNCHANGED <<env, faults, objs>>

\* the page a call of sync_blocks writes to
SyncTarget(me) ==
  IF me.pc = "sync_highlights" THEN me.page_ids.highlight_page
  ELSE me.page_ids.parent_page

\* batch = blocks[i : i + 101]: a slice one block too long
sync_batch_too_long(blocks, i) ==
  SubSeq(blocks, i + 1, min(i + 101, Len(blocks)))

\* batch = blocks[i : i + 100]
sync_batch(blocks, i) == SubSeq(blocks, i + 1, min(i + BatchCap, Len(blocks)))

\* range(0, len(blocks), 100): the next i
sync_next(i) == i + BatchCap

\* the entry of a call in the log of append calls
AppendCall(me, ok) ==
  [block_id |-> SyncTarget(me), children |-> sync_batch(me.blocks, me.i),
   ok |-> ok]

\* sync_blocks: one append call that succeeds
AppendBatch(r) ==
  /\ run[r].pc \in SyncPcs
  /\ run[r].i < Len(run[r].blocks)
  /\ objs' = objs \o NewBlocks(SyncTarget(run[r]),
                               sync_batch(run[r].blocks, run[r].i), r)
  /\ run' = [run EXCEPT ![r] =
        [@ EXCEPT !.i = sync_next(run[r].i),
                  !.appends = Append(@, AppendCall(run[r], TRUE)),
                  !.ops = Op(run[r], run[r].pc, TRUE)]]
  /\ UNCHANGED <<env, faults>>

\* sync_blocks without the try: the error leaves sync_blocks
on_append_error_reraise(me) ==
  [me EXCEPT !.pc = "crashed", !.failed = me.pc,
             !.ops = Append(@, [op |-> me.pc, rec |-> me.idx, ok |-> FALSE])]

\* the except branch of sync_blocks: log the error, go on with the loop
on_append_error(me) ==
  [me EXCEPT !.i = sync_next(me.i),
             !.appends = Append(@, AppendCall(me, FALSE)),
             !.ops = Op(me, me.pc, FALSE)]

\* sync_blocks: one append call that raises
AppendBatchFails(r) ==
  /\ run[r].pc \in SyncPcs
  /\ run[r].i < Len(run[r].blocks)
  /\ faults > 0
  /\ faults' = faults - 1
  /\ run' = [run EXCEPT ![r] = on_append_error(run[r])]
  /\ UNCHANGED <<env, objs>>

\* the for loop of sync_bookmarks takes the next row, or the run ends
NextBook(me) ==
  [me EXCEPT !.idx = me.idx + 1,
             !.pc = IF me.idx + 1 > Len(books) THEN "done" ELSE "fetch_cover"]

\* sync_blocks returns to sync_bookmarks
SyncBlocksReturn(r) ==
  /\ run[r].pc \in SyncPcs
  /\ run[r].i >= Len(run[r].blocks)
  /\ run' = [run EXCEPT ![r] =
        IF run[r].pc = "sync_highlights"
        THEN LET logged == [run[r] EXCEPT !.synced = Append(@, run[r].idx)]
             IN IF run[r].SUMMARIZE
                THEN [logged EXCEPT !.pc = "summarize"]
                ELSE NextBook(logged)
        ELSE NextBook(run[r])]
  /\ UNCHANGED <<env, faults, objs>>

\* summarize_bookmarks, then parse_markdown_to_notion_blocks; sync_blocks
\* is entered with the main page
Summarize(r) ==
  /\ run[r].pc = "summarize"
  /\ LET parsed == parse_markdown_to_notion_blocks(gemini)
     IN run' = [run EXCEPT ![r] =
          IF parsed.raised
          THEN [@ EXCEPT !.pc = "crashed", !.failed = "parse",
                         !.ops = Op(run[r], "summarize", TRUE)]
          ELSE [@ EXCEPT !.pc = "sync_summary",
                         !.blocks = parsed.notion_blocks,
                         !.i = 0, !.appends = <<>>,
                         !.ops = Op(run[r], "summarize", TRUE)]]
  /\ UNCHANGED <<env, faults, objs>>

\* ------------------------------------------------------------------------
\* Successive runs against one workspace
\* ------------------------------------------------------------------------

\* rows of the content table
BookA1 == [Title |-> "A", Info |-> 1]
BookA2 == [Title |-> "A", Info |-> 2]
BookB1 == [Title |-> "B", Info |-> 1]
Titles == {"A", "B"}
BookLists == {<<>>, <<BookA1>>, <<BookA1, BookA2>>, <<BookA1, BookB1>>}

\* rows of the Bookmark table
MarkH == [Type |-> "highlight", Highlight |-> <<" ", "h", "\n", "i">>,
          Annotation |-> None]
MarkN == [Type |-> "note", Highlight |-> <<"h">>, Annotation |-> <<"n">>]
MarkTables ==
  {[t \in Titles |-> IF t = "A" THEN <<MarkH, MarkN>> ELSE <<>>]}

\* answers of the Summarizer
SummaryTexts == {<<"#", " ", "T", "\n", "-", " ", "a">>}

\* answers of the cover lookup
CoverUrl == <<"u">>

Init ==
  /\ books \in BookLists
  /\ marks \in MarkTables
  /\ gemini \in SummaryTexts
  /\ google \in {None, CoverUrl}
  /\ faults = MaxFaults
  /\ objs = <<>>
  /\ run = [r \in Runs |-> IdleRun]

Next ==
  \E r \in Runs :
    \/ StartRun(r)
    \/ FetchCover(r)
    \/ Raises(r)
    \/ QueryPage(r)
    \/ CreateMainPage(r)
    \/ UpdatePage(r)
    \/ ListOldHighlights(r)
    \/ ArchiveOldHighlights(r)
    \/ CreateHighlightPage(r)
    \/ LoadBookmark(r)
    \/ PrepareBlocks(r)
    \/ AppendBatch(r)
    \/ AppendBatchFails(r)
    \/ SyncBlocksReturn(r)
    \/ Summarize(r)

Spec == Init /\ [][Next]_vars

\* ------------------------------------------------------------------------
\* One record, from a state of the first run: wider inputs for the pure
\* steps (_prepare_bookmark_blocks, sync_blocks, parse_markdown_to_notion_blocks)
\* ------------------------------------------------------------------------

\* the workspace after the first record's page and highlight page are made
FreshPages ==
  <<NewMainPage(None, Properties(BookA1), 1), NewHighlightPage(1, 1)>>

\* the first run when get_or_create_page has returned for the first row
AtLoadBookmark(summarize) ==
  [IdleRun EXCEPT
     !.pc = "load_bookmark", !.idx = 1, !.SUMMARIZE = summarize,
     !.page_ids = [parent_page |-> 1, highlight_page |-> 2],
     !.ops = <<[op |-> "fetch_cover", rec |-> 1, ok |-> TRUE],
               [op |-> "query", rec |-> 1, ok |-> TRUE],
               [op |-> "create_main", rec |-> 1, ok |-> TRUE],
               [op |-> "create_highlight", rec |-> 1, ok |-> TRUE]>>]

\* the first run when an empty bookmark list has been synced and the
\* summary is next
AtSummarize ==
  [AtLoadBookmark(TRUE) EXCEPT !.pc = "summarize", !.synced = <<1>>]

\* all texts of at most n characters over the alphabet
TextsOver(alphabet, n) == UNION {[1..k -> alphabet] : k \in 0..n}

\* all lists of at most n elements of the set
ListsOver(set, n) == UNION {[1..k -> set] : k \in 0..n}

\* rows of the Bookmark table: every kind of Highlight and Annotation
HighlightTexts ==
  {None, <<>>, <<" ">>, <<"a">>, <<" ", "a", "\n", "b", " ">>}
AnnotationTexts == {None, <<>>, <<" ">>, <<"n">>, <<" ", "n">>}
MarkRows ==
  [Type : {"highlight", "note"}, Highlight : HighlightTexts,
   Annotation : AnnotationTexts]

InitRender ==
  /\ books = <<BookA1>>
  /\ \E m \in ListsOver(MarkRows, MaxRecs) : marks = [t \in Titles |-> m]
  /\ gemini = <<>>
  /\ google = None
  /\ faults = 1
  /\ objs = FreshPages
  /\ run = [r \in Runs |-> IF r = 1 THEN AtLoadBookmark(FALSE) ELSE IdleRun]

NextRender ==
  \E r \in Runs :
    \/ LoadBookmark(r)
    \/ PrepareBlocks(r)
    \/ AppendBatch(r)
    \/ AppendBatchFails(r)
    \/ SyncBlocksReturn(r)

SpecRender == InitRender /\ [][NextRender]_vars

\* the decimal digits of n, as text
RECURSIVE Decimal(_)
Decimal(n) ==
  LET d == <<"0", "1", "2", "3", "4", "5", "6", "7", "8", "9">>[(n % 10) + 1]
  IN IF n < 10 THEN <<d>> ELSE Append(Decimal(n \div 10), d)

\* n highlights, each with its own text
ManyMarks(n) ==
  [k \in 1..n |->
     [Type |-> "highlight", Highlight |-> Decimal(k), Annotation |-> None]]

InitBatch ==
  /\ books = <<BookA1, BookB1>>
  /\ \E n \in 0..MaxBlocks : marks = [t \in Titles |-> ManyMarks(n)]
  /\ gemini \in SummaryTexts
  /\ google = None
  /\ faults = MaxBatchFaults
  /\ objs = FreshPages
  /\ run = [r \in Runs |-> IF r = 1 THEN AtLoadBookmark(TRUE) ELSE IdleRun]

NextBatch ==
  \E r \in Runs :
    \/ LoadBookmark(r)
    \/ PrepareBlocks(r)
    \/ AppendBatch(r)
    \/ AppendBatchFails(r)
    \/ SyncBlocksReturn(r)
    \/ Summarize(r)

SpecBatch == InitBatch /\ [][NextBatch]_vars

\* the characters of the markup
MarkupChars == {"#", "-", "*", " ", "a", "1", ".", ">", "\n"}

\* n spaces
Spaces(n) == [k \in 1..n |-> " "]

\* lines of markup: every kind of line, the list items at every indent
ItemBodies ==
  {<<"-", " ", "a">>, <<"-", " ", "b">>, <<"*", " ", "b">>,
   <<"1", ".", " ", "c">>}
OtherLines ==
  {<<>>, <<"#", " ", "h">>, <<">", " ", "q">>, <<"p">>,
   <<"a", "*", "*", "b", "*", "*", "c">>}
MarkupLines ==
  OtherLines \cup {Spaces(n) \o b : n \in 0..MaxIndent, b \in ItemBodies}

\* "\n".join(lines)
RECURSIVE Join(_)
Join(lines) ==
  IF lines = <<>> THEN <<>>
  ELSE IF Len(lines) = 1 THEN lines[1]
  ELSE lines[1] \o <<"\n">> \o Join(Tail(lines))

\* the markup texts the parser is run on
MarkupTexts ==
  TextsOver(MarkupChars, MaxChars)
    \cup {Join(ls) : ls \in ListsOver(MarkupLines, MaxLines)}

InitCompile ==
  /\ books = <<BookA1>>
  /\ marks = [t \in Titles |-> <<>>]
  /\ gemini \in MarkupTexts
  /\ google = None
  /\ faults = 0
  /\ objs = FreshPages
  /\ run = [r \in Runs |-> IF r = 1 THEN AtSummarize ELSE IdleRun]

NextCompile ==
  \E r \in Runs :
    \/ Summarize(r)
    \/ AppendBatch(r)
    \/ SyncBlocksReturn(r)

SpecCompile == InitCompile /\ [][NextCompile]_vars

\* ------------------------------------------------------------------------
\* Two runs at a time against one workspace: nothing in sync_bookmarks
\* takes a lock, so two processes started together interleave call by call
\* ------------------------------------------------------------------------

\* one of two runs starts, whether or not the other is under way
StartConcurrently(r) ==
  /\ r <= 2
  /\ \A q \in Runs : q < r => run[q].pc # "idle"
  /\ \E summarize \in BOOLEAN : Begin(r, summarize)

NextConcurrent ==
  \E r \in Runs :
    \/ StartConcurrently(r)
    \/ FetchCover(r)
    \/ Raises(r)
    \/ QueryPage(r)
    \/ CreateMainPage(r)
    \/ UpdatePage(r)
    \/ ListOldHighlights(r)
    \/ ArchiveOldHighlights(r)
    \/ CreateHighlightPage(r)
    \/ LoadBookmark(r)
    \/ PrepareBlocks(r)
    \/ AppendBatch(r)
    \/ AppendBatchFails(r)
    \/ SyncBlocksReturn(r)
    \/ Summarize(r)

\* one row, so that every run works on the same title
InitConcurrent ==
  /\ books = <<BookA1>>
  /\ marks = [t \in Titles |-> <<MarkN>>]
  /\ gemini \in SummaryTexts
  /\ google = None
  /\ faults = MaxFaults
  /\ objs = <<>>
  /\ run = [r \in Runs |-> IdleRun]

SpecConcurrent == InitConcurrent /\ [][NextConcurrent]_vars

\* ------------------------------------------------------------------------
\* Properties
\* ------------------------------------------------------------------------

\* the main pages of the database
MainPages ==
  {k \in 1..Len(objs) : objs[k].kind = "page" /\ objs[k].parent = Database}

\* the live (non-archived) highlights children of a main page
LiveHighlights(p) ==
  {k \in 1..Len(objs) :
     objs[k].parent = p /\ objs[k].kind = "child_page" /\ ~objs[k].archived}

\* the live children of an object, as objects, in order
LiveContent(p) ==
  LET ids == ListChildren(objs, p)
  IN [k \in 1..Len(ids) |-> objs[ids[k]]]

\* run r has returned and no later run has started
AfterRun(r) ==
  run[r].pc = "done" /\ \A q \in Runs : q > r => run[q].pc = "idle"

\* no append call of run r has failed
NoBatchFailed(r) ==
  \A k \in 1..Len(run[r].ops) :
    run[r].ops[k].op \in SyncPcs => run[r].ops[k].ok

\* C1: after every complete run of a sequence of successive runs, with
\* summarization on or off, every target page has exactly one live
\* highlights child.
C1_OneLiveHighlights ==
  \A r \in Runs :
    AfterRun(r) => \A p \in MainPages : Cardinality(LiveHighlights(p)) = 1

\* C2: there is at most one target page per title; a main page is created
\* only when the query by exact title found none, and otherwise the page
\* that was found, which has that title, is the one updated.
C2_OnePagePerTitle ==
  /\ \A t \in Titles :
       Cardinality({p \in MainPages : objs[p].props.Title = t}) <= 1
  /\ \A r \in Runs :
       /\ run[r].pc = "create_main" =>
            \A p \in MainPages : objs[p].props.Title # Book(run[r]).Title
       /\ run[r].pc = "update" =>
            /\ run[r].existing_page[1] \in MainPages
            /\ objs[run[r].existing_page[1]].props.Title = Book(run[r]).Title

\* C2 witness: two rows with one title have been synced by two runs, and the
\* one page of that title carries the properties of the second row
C2_Witness ==
  /\ books = <<BookA1, BookA2>>
  /\ run[2].pc = "done"
  /\ Len(run[1].synced) = 2
  /\ Len(run[2].synced) = 2
  /\ \E p \in MainPages : objs[p].props = Properties(BookA2)
  /\ Cardinality(MainPages) = 1

\* C4: after a complete run in which no batch write failed, a live
\* highlights child holds exactly the blocks rendered from that run's
\* annotations, in order, all written by that run.
C4_ReplaceSemantics ==
  \A r \in Runs :
    (AfterRun(r) /\ NoBatchFailed(r)) =>
      \A p \in MainPages : \A c \in LiveHighlights(p) :
        LET content == LiveContent(c)
        IN /\ [k \in 1..Len(content) |-> content[k].body]
                = _prepare_bookmark_blocks(marks[objs[p].props.Title])
           /\ \A k \in 1..Len(content) : content[k].by = r

\* the calls that create or update a page
PageCalls == {"create_main", "update", "archive", "create_highlight"}

\* C5: when a page create or update call fails for a row that is not the
\* last, the rest of that row is dropped and the run goes on with the next
\* row.
C5_NextRecordRuns ==
  [][\A r \in Runs :
       (/\ run[r].pc \in PageCalls
        /\ run'[r].failed \in PageCalls
        /\ run[r].idx < Len(books)) =>
         /\ run'[r].idx = run[r].idx + 1
         /\ run'[r].pc = "fetch_cover"]_vars

\* C7: a cover lookup that raises or finds nothing never aborts the record:
\* the run goes on to the title query with no cover.
C7_CoverBestEffort ==
  [][\A r \in Runs :
       (run[r].pc = "fetch_cover" /\ run'[r] # run[r]) =>
         run'[r].pc = "query"]_vars

\* the batches of a log of append calls, concatenated in call order
RECURSIVE ConcatCalls(_)
ConcatCalls(calls) ==
  IF calls = <<>> THEN <<>>
  ELSE Head(calls).children \o ConcatCalls(Tail(calls))

\* the sizes of the batches of a log of append calls
BatchSizes(calls) == [k \in 1..Len(calls) |-> Len(calls[k].children)]

\* the loop of the current (or last) call of sync_blocks is over
SyncOver(me) == me.pc \notin SyncPcs \/ me.i >= Len(me.blocks)

\* C3: sync_blocks issues ceil(N/100) append calls for N blocks, each of at
\* most 100 blocks and each but the last of exactly 100, and the batches in
\* call order make up the list; 250 blocks give 100, 100, 50.
C3_Batches ==
  \A r \in Runs :
    LET me    == run[r]
        n     == Len(me.blocks)
        sizes == BatchSizes(me.appends)
    IN /\ \A k \in 1..Len(sizes) : sizes[k] >= 1 /\ sizes[k] <= 100
       /\ \A k \in 1..(Len(sizes) - 1) : sizes[k] = 100
       /\ ConcatCalls(me.appends) = SubSeq(me.blocks, 1, min(me.i, n))
       /\ SyncOver(me) =>
            /\ Len(me.appends) = (n + 99) \div 100
            /\ ConcatCalls(me.appends) = me.blocks
            /\ n = 250 => sizes = <<100, 100, 50>>

\* C3 witness: sync_blocks has returned for 250 blocks after three calls
C3_Witness ==
  /\ run[1].pc = "summarize"
  /\ Len(run[1].blocks) = 250
  /\ BatchSizes(run[1].appends) = <<100, 100, 50>>
  /\ \A k \in 1..3 : run[1].appends[k].ok

\* the failed calls of sync_blocks in the trace of a run, for one call site
FailedAppends(me, site) ==
  {k \in 1..Len(me.ops) : me.ops[k].op = site /\ ~me.ops[k].ok}

\* C6: a failing append call is not fatal: every batch is attempted once,
\* in order, whether or not earlier ones failed; sync_blocks returns; the
\* record is reported as synced, the summary step and the next record run.
C6_AppendNonFatal ==
  \A r \in Runs :
    LET me == run[r]
        n  == Len(me.blocks)
    IN /\ me.pc \in {"idle", "load_bookmark", "prepare", "sync_highlights",
                    "summarize", "sync_summary", "fetch_cover"}
       /\ me.i = 100 * Len(me.appends)
       /\ \A k \in 1..Len(me.appends) :
            me.appends[k].children
              = SubSeq(me.blocks, 100 * (k - 1) + 1, min(100 * k, n))
       /\ (me.pc \in SyncPcs /\ me.i < n) => ENABLED AppendBatch(r)
       /\ (me.pc \in SyncPcs /\ me.i >= n) => ENABLED SyncBlocksReturn(r)
       /\ me.pc \in {"summarize", "sync_summary", "fetch_cover"} =>
            me.synced = <<1>>
       /\ (me.pc = "fetch_cover" /\ me.SUMMARIZE) =>
            /\ me.idx = 2
            /\ \E k \in 1..Len(me.ops) :
                 me.ops[k].op = "summarize" /\ me.ops[k].rec = 1

\* C6 witness: two highlight batches and the summary batch failed, and the
\* run is at the next record with the first reported as synced
C6_Witness ==
  /\ run[1].pc = "fetch_cover"
  /\ run[1].idx = 2
  /\ run[1].synced = <<1>>
  /\ Cardinality(FailedAppends(run[1], "sync_highlights")) = 2
  /\ Cardinality(FailedAppends(run[1], "sync_summary")) = 1
  /\ Len(LiveContent(2)) = 50

\* a list item as the parser builds it
ListItem(kind, text, children) ==
  [object |-> "block", type |-> kind,
   rich_text |-> <<[content |-> text, bold |-> FALSE]>>,
   has_children |-> children # <<>>, children |-> children]

\* the two-line lists whose second item is indented deeper than the first
NestedInputs ==
  {[n1 |-> a, n2 |-> b, kind |-> k] :
     a \in 0..MaxIndent, b \in 0..MaxIndent,
     k \in {"bulleted_list_item", "numbered_list_item"}}

\* the text of such a list
NestedText(c) ==
  IF c.kind = "bulleted_list_item"
  THEN Spaces(c.n1) \o <<"-", " ", "a">> \o <<"\n">>
         \o Spaces(c.n2) \o <<"-", " ", "b">>
  ELSE Spaces(c.n1) \o <<"1", ".", " ", "c">> \o <<"\n">>
         \o Spaces(c.n2) \o <<"1", ".", " ", "c">>

\* C8: the indent of a list line is the leading-whitespace width of the
\* untrimmed line, and an item indented deeper than the open list of its
\* kind becomes a child of the open item: "- a", "  - b" gives one top-level
\* item whose children hold the second item.
C8_NestedItem ==
  \A c \in NestedInputs :
    (c.n1 < c.n2 /\ gemini = NestedText(c) /\ run[1].pc # "summarize") =>
      /\ parse_markdown_to_notion_blocks(gemini).indents = <<c.n1, c.n2>>
      /\ run[1].pc # "crashed"
      /\ run[1].blocks =
           IF c.kind = "bulleted_list_item"
           THEN <<ListItem(c.kind, <<"a">>, <<ListItem(c.kind, <<"b">>, <<>>)>>)>>
           ELSE <<ListItem(c.kind, <<"c">>, <<ListItem(c.kind, <<"c">>, <<>>)>>)>>

\* the number of leading '#' characters
LeadingHashes(line) == Len(line) - Len(lstrip_hash(line))

\* C9: a heading line gives a heading whose level is the number of leading
\* '#' characters, at most 3, whatever follows them, and whose text is the
\* rest with leading '#' and whitespace stripped.
C9_HeadingLevel ==
  LET line == strip(gemini)
  IN (/\ run[1].pc # "summarize"
      /\ \A k \in 1..Len(gemini) : gemini[k] # "\n"
      /\ startswith(line, <<"#">>)) =>
       /\ run[1].pc # "crashed"
       /\ Len(run[1].blocks) = 1
       /\ run[1].blocks[1].type = heading_type(min(LeadingHashes(line), 3))
       /\ run[1].blocks[1].rich_text
            = parse_rich_text(strip(lstrip_hash(line)))

\* an optional text with a character that is not whitespace
HasText(t) == t # None /\ \E k \in 1..Len(t) : ~IsSpace(t[k])

\* a record that has content: a highlight text, or the note of a Note
RecordHasContent(row) ==
  HasText(row.Highlight) \/ (row.Type # "highlight" /\ HasText(row.Annotation))

\* the batches of the append calls that succeeded, in call order
RECURSIVE ConcatOk(_)
ConcatOk(calls) ==
  IF calls = <<>> THEN <<>>
  ELSE (IF Head(calls).ok THEN Head(calls).children ELSE <<>>)
         \o ConcatOk(Tail(calls))

\* C10: render gives at most N blocks for N records: one per record with
\* content, in the order of the records, a Paragraph for a Highlight and a
\* Quote for any other record; the highlights child receives them in that
\* order.
C10_RenderOrder ==
  \A r \in Runs :
    LET me == run[r]
        written == LiveContent(me.page_ids.highlight_page)
    IN me.pc \in {"sync_highlights", "done"} =>
         /\ Len(me.blocks) <= Len(me.bookmarks)
         /\ \E f \in [1..Len(me.blocks) -> 1..Len(me.bookmarks)] :
              /\ \A j, k \in 1..Len(me.blocks) : j < k => f[j] < f[k]
              /\ {f[k] : k \in 1..Len(me.blocks)}
                   = {j \in 1..Len(me.bookmarks) :
                        RecordHasContent(me.bookmarks[j])}
              /\ \A k \in 1..Len(me.blocks) :
                   me.blocks[k].type =
                     IF me.bookmarks[f[k]].Type = "highlight"
                     THEN "paragraph" ELSE "quote"
         /\ [k \in 1..Len(written) |-> written[k].body]
              = ConcatOk(me.appends)
         /\ (SyncOver(me) /\ NoBatchFailed(r)) =>
              [k \in 1..Len(written) |-> written[k].body] = me.blocks

\* C10 witness: a Note and then a Highlight, both with content, rendered
\* and written as a Quote and then a Paragraph
C10_Witness ==
  /\ run[1].pc = "done"
  /\ Len(run[1].bookmarks) = 2
  /\ run[1].bookmarks[1].Type = "note"
  /\ run[1].bookmarks[2].Type = "highlight"
  /\ Len(run[1].blocks) = 2
  /\ run[1].blocks[1].type = "quote"
  /\ run[1].blocks[2].type = "paragraph"
  /\ LET written == LiveContent(2)
     IN [k \in 1..Len(written) |-> written[k].body] = run[1].blocks

\* the note text of a record: the trimmed annotation, empty when there is none
NoteText(row) ==
  IF row.Annotation = None THEN <<>> ELSE strip(row.Annotation)

\* the normalized highlight text of a record, empty when there is none
NormalizedHighlight(row) ==
  IF row.Highlight = None THEN <<>> ELSE replace_newline(strip(row.Highlight))

\* the content the Quote block of a Note record is to have
NoteContent(row) ==
  IF NoteText(row) # <<>> /\ NormalizedHighlight(row) # <<>>
  THEN NoteText(row) \o <<"\n">> \o NormalizedHighlight(row)
  ELSE IF NoteText(row) # <<>> THEN NoteText(row)
  ELSE NormalizedHighlight(row)

\* the text of a rendered block
BlockText(block) == block.rich_text[1].content

\* C11: the Quote block of a Note record holds the note text, a newline and
\* the normalized highlight text when both are present, the note text alone
\* when there is no highlight text, the highlight text alone when the note
\* is empty; no rendered block has empty content, and a record with neither
\* gives no block.
C11_NoteContent ==
  \A r \in Runs :
    LET me == run[r]
        IsNote(row) == row.Type # "highlight"
        Kept(row) == NoteContent(row) # <<>>
        kept == SelectSeq(me.bookmarks, Kept)
    IN me.pc \in {"sync_highlights", "done"} =>
         /\ \A k \in 1..Len(me.blocks) : BlockText(me.blocks[k]) # <<>>
         /\ (\A j \in 1..Len(me.bookmarks) : IsNote(me.bookmarks[j])) =>
              /\ Len(me.blocks) = Len(kept)
              /\ \A k \in 1..Len(kept) :
                   /\ me.blocks[k].type = "quote"
                   /\ BlockText(me.blocks[k]) = NoteContent(kept[k])

\* the text a one-line markup gives to its block: the line without its marker
LineText(line) ==
  IF startswith(line, <<"#">>) THEN strip(lstrip_hash(line))
  ELSE IF startswith(line, <<"-", " ">>) \/ startswith(line, <<"*", " ">>)
    THEN strip(SubSeq(line, 3, Len(line)))
  ELSE IF IsDigit(line[1]) /\ find(line, <<".", " ">>) # 0
    THEN strip(SubSeq(line, find(line, <<".", " ">>) + 2, Len(line)))
  ELSE IF startswith(line, <<">">>) THEN strip(Tail(line))
  ELSE line

RECURSIVE ScanSpans(_, _, _)
\* the spans of a text, read character by character: a "**" ends the piece
\* being read; pieces are numbered from 0; a piece that is not empty gives a
\* span, bold when its number is odd
ScanSpans(s, piece, number) ==
  LET span == IF piece = <<>> THEN <<>>
              ELSE <<[content |-> piece, bold |-> (number % 2 = 1)]>>
  IN IF s = <<>> THEN span
     ELSE IF Len(s) >= 2 /\ s[1] = "*" /\ s[2] = "*"
       THEN span \o ScanSpans(SubSeq(s, 3, Len(s)), <<>>, number + 1)
     ELSE ScanSpans(Tail(s), Append(piece, Head(s)), number)

RECURSIVE RemoveStars(_)
\* the text with every "**" removed, left to right
RemoveStars(s) ==
  IF s = <<>> THEN <<>>
  ELSE IF Len(s) >= 2 /\ s[1] = "*" /\ s[2] = "*"
    THEN RemoveStars(SubSeq(s, 3, Len(s)))
  ELSE <<Head(s)>> \o RemoveStars(Tail(s))

RECURSIVE ConcatSpans(_)
\* the texts of the spans, concatenated in order
ConcatSpans(spans) ==
  IF spans = <<>> THEN <<>>
  ELSE Head(spans).content \o ConcatSpans(Tail(spans))

\* the markup is one line that is not blank
OneLine(text) ==
  strip(text) # <<>> /\ \A k \in 1..Len(text) : text[k] # "\n"

\* C12: the spans of a block are the pieces of its text between "**"
\* delimiters, without the empty pieces, bold exactly at the odd pieces; no
\* span is empty, and the spans concatenated give the text without "**".
C12_InlineSpans ==
  /\ \A k \in 1..Len(run[1].blocks) :
       \A j \in 1..Len(run[1].blocks[k].rich_text) :
         run[1].blocks[k].rich_text[j].content # <<>>
  /\ (run[1].pc \in {"sync_summary", "done"} /\ OneLine(gemini)) =>
       LET text == LineText(strip(gemini))
       IN /\ Len(run[1].blocks) = 1
          /\ run[1].blocks[1].rich_text = ScanSpans(text, <<>>, 0)
          /\ ConcatSpans(run[1].blocks[1].rich_text) = RemoveStars(text)

\* C12 witness: "a**b**c" compiled to a plain, a bold and a plain span and
\* written to the main page
C12_Witness ==
  /\ gemini = <<"a", "*", "*", "b", "*", "*", "c">>
  /\ run[1].pc = "done"
  /\ Len(LiveContent(1)) = 2
  /\ LiveContent(1)[2].body.rich_text
       = <<[content |-> <<"a">>, bold |-> FALSE],
           [content |-> <<"b">>, bold |-> TRUE],
           [content |-> <<"c">>, bold |-> FALSE]>>

\* C13: the only object the update path archives is the live highlights
\* child of the main page, made by an earlier run (or for an earlier row of
\* the same title); a summary block of the main page body is never archived.
C13_ArchivesHighlightsOnly ==
  [][\A k \in 1..Len(objs) :
       (~objs[k].archived /\ objs'[k].archived) =>
         /\ objs[k].kind = "child_page"
         /\ objs[k].parent \in MainPages
         /\ \E r \in Runs : run[r].pc = "archive" /\ objs[k].by <= r]_vars

\* the place of a call in the order of a record's calls
Rank(name) ==
  CASE name = "fetch_cover"      -> 1
    [] name = "query"            -> 2
    [] name \in {"create_main", "update"} -> 3
    [] name = "list_children"    -> 4
    [] name = "archive"          -> 5
    [] name = "create_highlight" -> 6
    [] name = "sync_highlights"  -> 7
    [] name = "summarize"        -> 8
    [] name = "sync_summary"     -> 9

\* the calls that can come just before a call, for the same record
Before(name) ==
  CASE name = "fetch_cover"      -> {}
    [] name = "query"            -> {"fetch_cover"}
    [] name \in {"create_main", "update"} -> {"query"}
    [] name = "list_children"    -> {"update"}
    [] name = "archive"          -> {"list_children"}
    [] name = "create_highlight" -> {"create_main", "list_children", "archive"}
    [] name = "sync_highlights"  -> {"create_highlight", "sync_highlights"}
    [] name = "summarize"        -> {"create_highlight", "sync_highlights"}
    [] name = "sync_summary"     -> {"summarize", "sync_summary"}

\* C14: in one run the calls of a record are made in the order cover lookup,
\* title query, page create or update, highlights child archive and create,
\* highlight batches, then the summary and its batches only when summarizing;
\* every call of a record comes before every call of the next record.
C14_RecordOrder ==
  \A r \in Runs :
    LET ops == run[r].ops
    IN \A k \in 1..Len(ops) :
         /\ Rank(ops[k].op) >= 8 => run[r].SUMMARIZE
         /\ k = 1 => ops[k].op = "fetch_cover" /\ ops[k].rec = 1
         /\ k > 1 =>
              IF ops[k].op = "fetch_cover"
              THEN /\ ops[k].rec = ops[k - 1].rec + 1
                   /\ Rank(ops[k - 1].op) >= 6
              ELSE /\ ops[k].rec = ops[k - 1].rec
                   /\ Rank(ops[k - 1].op) <= Rank(ops[k].op)
                   /\ ops[k - 1].op \in Before(ops[k].op)
                   /\ ops[k - 1].ok \/ ops[k - 1].op \in SyncPcs

\* the run has made that call for that record, and it returned
Called(me, name, rec) ==
  \E k \in 1..Len(me.ops) :
    me.ops[k].op = name /\ me.ops[k].rec = rec /\ me.ops[k].ok

\* C14 witness: a summarizing run has synced two records, the first on the
\* create path and the second on the update path, with batches of both kinds
C14_Witness ==
  /\ run[1].pc = "done"
  /\ Len(books) = 2
  /\ Called(run[1], "create_main", 1)
  /\ Called(run[1], "sync_highlights", 1)
  /\ Called(run[1], "sync_summary", 1)
  /\ Called(run[1], "fetch_cover", 2)
  /\ Called(run[1], "archive", 2)
  /\ Called(run[1], "sync_highlights", 2)
  /\ Called(run[1], "sync_summary", 2)

\* the live main pages of a title
LivePagesOf(os, title) ==
  {k \in 1..Len(os) :
     /\ os[k].kind = "page" /\ os[k].parent = Database
     /\ ~os[k].archived /\ os[k].props.Title = title}

\* C15: with two runs under way at once, a run whose title query came back
\* empty creates its main page whatever the other run has created in the
\* meantime: the create call is never refused and always adds a live page of
\* the title, so two live pages of one title can come to exist.
C15_RaceNotPrevented ==
  \A r \in Runs :
    run[r].pc = "create_main" =>
      /\ run[r].existing_page = <<>>
      /\ ENABLED CreateMainPage(r)

\* C15 witness: two runs were under way together, both queries for title A
\* came back empty, both runs created a main page, and two live pages of
\* title A exist
C15_Witness ==
  /\ Called(run[1], "create_main", 1)
  /\ Called(run[2], "create_main", 1)
  /\ run[1].existing_page = <<>>
  /\ run[2].existing_page = <<>>
  /\ books[1].Title = "A"
  /\ Cardinality(LivePagesOf(objs, "A")) = 2

\* run r is complete and the run before it was interrupted inside a record:
\* by the highlights child create raising (after the main page was created
\* or after the old child was archived) or by the summary raising (after the
\* highlight batches were written)
AfterInterrupted(r) ==
  /\ r > 1
  /\ run[r - 1].pc = "crashed"
  /\ run[r - 1].failed \in {"create_highlight", "summarize"}
  /\ AfterRun(r)
  /\ NoBatchFailed(r)

\* C16: the complete run that follows an interrupted run (stopped after the
\* main page was created, after the old highlights child was archived, or
\* after batches were written) ends with exactly one page for each title and
\* on it exactly one live highlights child, holding exactly the blocks
\* rendered from the record's annotations.
C16_Recoverable ==
  \A r \in Runs :
    AfterInterrupted(r) =>
      \A n \in 1..Len(books) :
        LET pages == LivePagesOf(objs, books[n].Title)
        IN /\ Cardinality(pages) = 1
           /\ \A p \in pages :
                /\ Cardinality(LiveHighlights(p)) = 1
                /\ \A c \in LiveHighlights(p) :
                     LET content == LiveContent(c)
                     IN [k \in 1..Len(content) |-> content[k].body]
                          = _prepare_bookmark_blocks(marks[books[n].Title])

\* the live blocks of the body of a page (its children that are not pages)
LiveBodyBlocks(p) ==
  LET IsBlock(o) == o.kind = "block"
  IN SelectSeq(LiveContent(p), IsBlock)

\* C17: after a complete summarizing run in which no batch write failed,
\* the live body of every main page holds the summary blocks of that run
\* only: summary blocks of earlier runs are archived, not kept next to them.
C17_SummaryReplaced ==
  \A r \in Runs :
    (AfterRun(r) /\ run[r].SUMMARIZE /\ NoBatchFailed(r)) =>
      \A p \in MainPages :
        LET body == LiveBodyBlocks(p)
        IN /\ \A k \in 1..Len(body) : body[k].by = r
           /\ [k \in 1..Len(body) |-> body[k].body]
                = parse_markdown_to_notion_blocks(gemini).notion_blocks

\* the objects a step adds to the workspace
Added == {k \in 1..Len(objs') : k > Len(objs)}

\* a step of run r appends highlight blocks only to its highlights child and
\* summary blocks only to its main page
AppendsInPlace(r) ==
  \A k \in Added :
    objs'[k].kind = "block" =>
      /\ run[r].pc \in SyncPcs
      /\ run[r].pc = "sync_highlights" =>
           /\ objs'[k].parent = run[r].page_ids.highlight_page
           /\ objs[objs'[k].parent].kind = "child_page"
      /\ run[r].pc = "sync_summary" =>
           /\ objs'[k].parent = run[r].page_ids.parent_page
           /\ objs'[k].parent \in MainPages

\* a step of a run that does not summarize calls no Summarizer and leaves
\* the body blocks of every main page as they are
BodyUntouched(r) ==
  /\ run'[r].pc # "summarize"
  /\ \A k \in Added : ~(objs'[k].kind = "block" /\ objs'[k].parent \in MainPages)
  /\ \A k \in 1..Len(objs) :
       (objs[k].kind = "block" /\ objs[k].parent \in MainPages) =>
         objs'[k] = objs[k]

\* C18: highlight blocks go to the highlights child only and summary blocks
\* to the main page only; a run with summarization off never calls the
\* Summarizer, appends nothing to the main page body, and changes the main
\* page only through its properties, cover, icon and highlights child.
C18_Frame ==
  [][\A r \in Runs :
       run'[r] # run[r] =>
         /\ AppendsInPlace(r)
         /\ ~run'[r].SUMMARIZE => BodyUntouched(r)]_vars

\* the kind of block a trimmed, non-blank line is to give, by the first test
\* that matches
Classify(line) ==
  IF Head(line) = "#" THEN "heading"
  ELSE IF Len(line) >= 2 /\ Head(line) \in {"-", "*"} /\ line[2] = " "
    THEN "bulleted_list_item"
  ELSE IF IsDigit(Head(line))
          /\ \E k \in 1..(Len(line) - 1) : line[k] = "." /\ line[k + 1] = " "
    THEN "numbered_list_item"
  ELSE IF Head(line) = ">" THEN "quote"
  ELSE "paragraph"

\* the kind of a block
KindOf(block) ==
  IF block.type \in {"heading_1", "heading_2", "heading_3"} THEN "heading"
  ELSE block.type

RECURSIVE Flatten(_)
\* the blocks of a forest: each block, then its children
Flatten(blocks) ==
  IF blocks = <<>> THEN <<>>
  ELSE <<Head(blocks)>> \o Head(blocks).children \o Flatten(Tail(blocks))

\* the lines of a text that are not blank, trimmed
NonBlankLines(text) ==
  LET lines == split(text, <<"\n">>)
      NonBlank(l) == strip(l) # <<>>
      kept == SelectSeq(lines, NonBlank)
  IN [k \in 1..Len(kept) |-> strip(kept[k])]

\* C19: compile gives one block for each line that is not blank and none
\* for a blank line, of the kind of the first test the trimmed line passes
\* (heading, bulleted item, numbered item, quote, else paragraph): the
\* forest has as many blocks as the text has non-blank lines.
C19_OneBlockPerLine ==
  run[1].pc # "summarize" =>
    LET lines == NonBlankLines(gemini)
        flat  == Flatten(run[1].blocks)
    IN /\ run[1].pc # "crashed"
       /\ Len(flat) = Len(lines)
       /\ \A k \in 1..Len(lines) : KindOf(flat[k]) = Classify(lines[k])

\* C19 witness: a heading, a blank line and a numbered item compiled to two
\* blocks and written to the main page
C19_Witness ==
  /\ gemini = <<"#", " ", "h", "\n", "\n", "1", ".", " ", "c">>
  /\ run[1].pc = "done"
  /\ Len(run[1].blocks) = 2
  /\ run[1].blocks[1].type = "heading_1"
  /\ run[1].blocks[2].type = "numbered_list_item"
  /\ Len(LiveBodyBlocks(1)) = 2

\* the kinds of list item
ListKinds == {"bulleted_list_item", "numbered_list_item"}

\* C20: in every forest compile returns, a heading, a paragraph or a quote
\* has no children and every child of a list item is a list item of its
\* parent's kind; an item is never put under an open item of the other kind,
\* and compile does not fail on an indented list item.
C20_ChildrenWellFormed ==
  run[1].pc # "summarize" =>
    /\ run[1].pc # "crashed"
    /\ ~parse_markdown_to_notion_blocks(gemini).raised
    /\ \A k \in 1..Len(run[1].blocks) :
         LET block == run[1].blocks[k]
         IN /\ block.type \notin ListKinds =>
                 ~block.has_children /\ block.children = <<>>
            /\ \A j \in 1..Len(block.children) :
                 /\ block.children[j].type = block.type
                 /\ block.children[j].children = <<>>

\* C20 witness: a numbered item indented under an open bulleted item, and a
\* quote, compiled without failing: the numbered item is not put under the
\* bulleted one
C20_Witness ==
  /\ gemini = <<"-", " ", "a", "\n", " ", " ", "1", ".", " ", "c", "\n",
                ">", " ", "q">>
  /\ run[1].pc = "done"
  /\ Len(run[1].blocks) = 3
  /\ run[1].blocks[1].type = "bulleted_list_item"
  /\ run[1].blocks[1].children = <<>>
  /\ run[1].blocks[2].type = "numbered_list_item"
  /\ run[1].blocks[3].type = "quote"

\* a line that is a list item
IsItemLine(l) == strip(l) # <<>> /\ Classify(strip(l)) \in ListKinds

\* a line that closes a list: a blank line, a heading, a quote, a paragraph
IsClosingLine(l) == strip(l) = <<>> \/ Classify(strip(l)) \notin ListKinds

====
